---- MODULE Spec2Model ----
(***************************************************************************)
(* A model of graphlab's shared_termination (the condition-variable based  *)
(* termination detector, src/src/graphlab/util/shared_termination.hpp) and *)
(* of synchronous_scope_factory (the double-buffered scope pool,           *)
(* src/src/graphlab/scope/synchronous_scope_factory.hpp).                  *)
(*                                                                         *)
(* Every statement of a detector method is one step of the calling thread, *)
(* so all interleavings of the methods' statements are explored.           *)
(***************************************************************************)
EXTENDS Integers, FiniteSets, Sequences, TLC

\* ------------------------------------------------------------------ bounds
\* Number of processors handed to both constructors.
ncpus == 2
\* Capacity of the scheduler's task queue in the model.
MaxQueue == 1

Cpus == 0 .. (ncpus - 1)

\* --------------------------------------------------------------- variables
VARIABLES
  st,         \* the shared_termination object (its fields, the mutex, the condvar)
  pc,         \* pc[w]: the statement thread w executes next
  hint,       \* hint[w]: argument of the new_job(cpuhint) call w is in ({} if none)
  queue,      \* number of tasks in the scheduler's queue
  ret,        \* ret[w]: what w's last end_sleep_critical_section call returned
  wake,       \* wake[w]: what ended w's current/last cond.wait
  seen,       \* seen[w]: the value of done w last read while holding the mutex
  declarer,   \* the threads that executed `done = true` since construction/reset
  called,     \* called[w]: the threads that were blocked in cond.wait when w's
              \* new_job call began and have been blocked since
  afterReset, \* "no", or in the state a reset() call produced: "done" if
              \* the call found done true and "running" if it found it false
  fac,        \* the synchronous_scope_factory object
  aborted,    \* TRUE once an assert of the factory has failed
  parity,     \* number of swap_graphs() calls so far, modulo 2
  fop,        \* the last factory operation called, with its arguments
  fret        \* what that call returned: <<"scope", i>> for a pointer to
              \* scopes[i], <<"void">>, or <<"none">> if it did not return

detVars ==
  <<st, pc, hint, queue, ret, wake, seen, declarer, called,
    afterReset>>
facVars == <<fac, aborted, parity, fop, fret>>
vars == <<st, pc, hint, queue, ret, wake, seen, declarer, called,
          afterReset,
          fac, aborted, parity, fop, fret>>

\* ------------------------------------------------------------------ size_t
\* A size_t value is represented by the integer closest to zero that is
\* congruent to it modulo 2^64: -k stands for 2^64 - k.  Increment and
\* decrement are then plain, and only the order has to know about the wrap.
SizeInc(x) == x + 1
SizeDec(x) == x - 1
\* a < b on size_t
SizeLess(a, b) ==
  IF a < 0 THEN (b < 0 /\ a < b) ELSE (b < 0 \/ a < b)

\* ------------------------------------------------- mutex and conditional
\* graphlab::mutex and graphlab::conditional (pthread wrappers).  st.m is the
\* set of threads holding the mutex (empty or a singleton), st.cond the set
\* of threads blocked in cond.wait that no broadcast has released yet.
CanLock(d) == d.m = {}
lock(d, t) == [d EXCEPT !.m = {t}]
unlock(d) == [d EXCEPT !.m = {}]
\* cond.wait(m), first half: release the mutex and block, atomically.
cond_wait(d, t) == [d EXCEPT !.m = {}, !.cond = @ \cup {t}]
cond_broadcast(d) == [d EXCEPT !.cond = {}]

\* ---------------------------------------------------- shared_termination
\* shared_termination(ncpus)
shared_termination(n) ==
  [ numactive |-> n,
    numcpus |-> n,
    done |-> FALSE,
    trying_to_sleep |-> 0,
    sleeping |-> [i \in 0 .. (n - 1) |-> FALSE],
    m |-> {},
    cond |-> {} ]

\* sleeping.size()
SleepingSize(d) == Cardinality(DOMAIN d.sleeping)

\* reset() re-arming the count but leaving the verdict of the last run.
reset_keeps_done(d) ==
  [d EXCEPT !.numactive = SleepingSize(d),
            !.numcpus = SleepingSize(d),
            !.trying_to_sleep = 0,
            !.sleeping = [i \in DOMAIN d.sleeping |-> FALSE]]
\* reset()
reset(d) ==
  [d EXCEPT !.numactive = SleepingSize(d),
            !.numcpus = SleepingSize(d),
            !.done = FALSE,
            !.trying_to_sleep = 0,
            !.sleeping = [i \in DOMAIN d.sleeping |-> FALSE]]

\* begin_sleep_critical_section, statement by statement
\* A begin that does not raise the hint counter.
begin_inc_forgotten(d) == d
begin_inc(d) == [d EXCEPT !.trying_to_sleep = SizeInc(@)]
begin_mark(d, cpuid) == [d EXCEPT !.sleeping[cpuid] = TRUE]
\* the whole call, run without interruption by thread cpuid
begin_sleep_critical_section(d, cpuid) ==
  lock(begin_mark(begin_inc(d), cpuid), cpuid)

\* cancel_sleep_critical_section, statement by statement
cancel_clear(d, cpuid) == [d EXCEPT !.sleeping[cpuid] = FALSE]
\* cancel leaving the hint counter as begin raised it.
cancel_dec_forgotten(d) == d
cancel_dec(d) == [d EXCEPT !.trying_to_sleep = SizeDec(@)]
cancel_sleep_critical_section(d, cpuid) ==
  cancel_dec(cancel_clear(unlock(d), cpuid))

\* end_sleep_critical_section, statement by statement
\* An end without the fast exit.
end_fast_exit_never(d) == FALSE
\* if (done)
end_fast_exit(d) == d.done
\* The fast exit giving back a count it never took.
fast_dec_counts(d) ==
  [d EXCEPT !.trying_to_sleep = SizeDec(@), !.numactive = SizeInc(@)]
fast_dec(d) == [d EXCEPT !.trying_to_sleep = SizeDec(@)]
fast_clear(d, cpuid) == [d EXCEPT !.sleeping[cpuid] = FALSE]
end_numactive_dec(d) == [d EXCEPT !.numactive = SizeDec(@)]
\* A last-thread test that fires with one thread still counted.
end_is_last_off_by_one(d) == d.numactive = 0 \/ d.numactive = 1
\* if (numactive == 0)
end_is_last(d) == d.numactive = 0
end_set_done(d) == [d EXCEPT !.done = TRUE]
\* The declaring thread leaving without waking the others.
end_broadcast_forgotten(d) == d
end_broadcast(d) == cond_broadcast(d)
\* A woken thread that counts itself active again without looking at done.
end_rearm_unconditional(d) == [d EXCEPT !.numactive = SizeInc(@)]
\* A woken thread that forgets to count itself active again.
end_rearm_forgotten(d) == d
\* A woken thread that takes every wakeup for new work.
end_rearm_clears_done(d) ==
  [d EXCEPT !.numactive = SizeInc(@), !.done = FALSE]
end_rearm(d) == IF ~d.done THEN [d EXCEPT !.numactive = SizeInc(@)] ELSE d
end_dec(d) == [d EXCEPT !.trying_to_sleep = SizeDec(@)]
end_clear(d, cpuid) == [d EXCEPT !.sleeping[cpuid] = FALSE]

\* new_job: the two fast-path tests and the guarded broadcast
new_job_test(d) == d.trying_to_sleep # 0
new_job_hint_test(d, cpuhint) == d.sleeping[cpuhint]
\* new_job with the comparison the wrong way round.
new_job_wake_inverted(d) ==
  IF SizeLess(d.numactive, d.numcpus) THEN d ELSE cond_broadcast(d)
\* new_job taking the mutex and leaving without a broadcast.
new_job_wake_never(d) == d
new_job_wake(d) ==
  IF SizeLess(d.numactive, d.numcpus) THEN cond_broadcast(d) ELSE d

\* num_active()
num_active(d) == d.numactive

\* --------------------------------------------------------------- the threads
RetVal(b) == IF b THEN "true" ELSE "false"

\* The program counters of the statements of each method.
BeginPcs == {"begin_mark", "begin_lock"}
CancelPcs == {"cancel_unlock", "cancel_clear", "cancel_dec"}
FastPcs == {"fast_unlock", "fast_dec", "fast_clear", "fast_ret"}
EndPcs == {"end_test", "end_numactive_dec", "end_zero", "end_set_done",
           "end_broadcast", "end_wait", "end_rearm", "end_unlock", "end_dec",
           "end_clear", "end_ret"} \cup FastPcs
NewJobPcs == {"new_job_test", "new_job_hint_test", "new_job_lock",
              "new_job_wake", "new_job_unlock"}
\* Outside every call: working, or stopped after end returned true.
OutPcs == {"idle", "terminated"}

Goto(w, label) == pc' = [pc EXCEPT ![w] = label]

\* A detector step leaves the factory alone and ends the after-reset instant.
DetFrame ==
  afterReset' = "no" /\ UNCHANGED <<fac, aborted, parity, fop, fret>>

\* The scheduler of thread w puts a task in the queue and then tells the
\* detector, with new_job() or with new_job(cpuhint).
Enqueue(w) ==
  /\ pc[w] = "idle"
  /\ queue < MaxQueue
  /\ queue' = queue + 1
  /\ \/ Goto(w, "new_job_test") /\ hint' = hint
     \/ \E h \in Cpus :
          Goto(w, "new_job_hint_test") /\ hint' = [hint EXCEPT ![w] = {h}]
  /\ UNCHANGED <<st, ret, wake, seen, declarer, called>>
  /\ DetFrame

\* The scheduler of thread w takes a task from the queue and runs it.
Dequeue(w) ==
  /\ pc[w] = "idle"
  /\ queue > 0
  /\ queue' = queue - 1
  /\ UNCHANGED <<st, pc, hint, ret, wake, seen, declarer, called>>
  /\ DetFrame

\* begin_sleep_critical_section(w): trying_to_sleep.inc()
BeginInc(w) ==
  /\ pc[w] \in OutPcs
  /\ st' = begin_inc(st)
  /\ wake' = [wake EXCEPT ![w] = "none"]
  /\ Goto(w, "begin_mark")
  /\ UNCHANGED <<hint, queue, ret, seen, declarer, called>>
  /\ DetFrame

\* sleeping[cpuid] = true
BeginMark(w) ==
  /\ pc[w] = "begin_mark"
  /\ st' = begin_mark(st, w)
  /\ Goto(w, "begin_lock")
  /\ UNCHANGED <<hint, queue, ret, wake, seen, declarer, called>>
  /\ DetFrame

\* m.lock()
BeginLock(w) ==
  /\ pc[w] = "begin_lock"
  /\ CanLock(st)
  /\ st' = lock(st, w)
  /\ Goto(w, "check_queue")
  /\ UNCHANGED <<hint, queue, ret, wake, seen, declarer, called>>
  /\ DetFrame

\* Holding the mutex, the scheduler looks at the queue: cancel if it has
\* tasks, end if it has none.
CheckQueue(w) ==
  /\ pc[w] = "check_queue"
  /\ IF queue > 0 THEN Goto(w, "cancel_unlock") ELSE Goto(w, "end_test")
  /\ UNCHANGED <<st, hint, queue, ret, wake, seen, declarer, called>>
  /\ DetFrame

\* cancel_sleep_critical_section(w): m.unlock()
CancelUnlock(w) ==
  /\ pc[w] = "cancel_unlock"
  /\ st' = unlock(st)
  /\ Goto(w, "cancel_clear")
  /\ UNCHANGED <<hint, queue, ret, wake, seen, declarer, called>>
  /\ DetFrame

\* sleeping[cpuid] = false
CancelClear(w) ==
  /\ pc[w] = "cancel_clear"
  /\ st' = cancel_clear(st, w)
  /\ Goto(w, "cancel_dec")
  /\ UNCHANGED <<hint, queue, ret, wake, seen, declarer, called>>
  /\ DetFrame

\* trying_to_sleep.dec()
CancelDec(w) ==
  /\ pc[w] = "cancel_dec"
  /\ st' = cancel_dec(st)
  /\ Goto(w, "idle")
  /\ UNCHANGED <<hint, queue, ret, wake, seen, declarer, called>>
  /\ DetFrame

\* end_sleep_critical_section(w): if (done)
EndTest(w) ==
  /\ pc[w] = "end_test"
  /\ seen' = [seen EXCEPT ![w] = st.done]
  /\ IF end_fast_exit(st)
       THEN Goto(w, "fast_unlock")
       ELSE Goto(w, "end_numactive_dec")
  /\ UNCHANGED <<st, hint, queue, ret, wake, declarer, called>>
  /\ DetFrame

\* the fast exit: m.unlock()
FastUnlock(w) ==
  /\ pc[w] = "fast_unlock"
  /\ st' = unlock(st)
  /\ Goto(w, "fast_dec")
  /\ UNCHANGED <<hint, queue, ret, wake, seen, declarer, called>>
  /\ DetFrame

\* trying_to_sleep.dec()
FastDec(w) ==
  /\ pc[w] = "fast_dec"
  /\ st' = fast_dec(st)
  /\ Goto(w, "fast_clear")
  /\ UNCHANGED <<hint, queue, ret, wake, seen, declarer, called>>
  /\ DetFrame

\* sleeping[cpuid] = false
FastClear(w) ==
  /\ pc[w] = "fast_clear"
  /\ st' = fast_clear(st, w)
  /\ Goto(w, "fast_ret")
  /\ UNCHANGED <<hint, queue, ret, wake, seen, declarer, called>>
  /\ DetFrame

\* return true
FastRet(w) ==
  /\ pc[w] = "fast_ret"
  /\ ret' = [ret EXCEPT ![w] = RetVal(TRUE)]
  /\ Goto(w, "terminated")
  /\ UNCHANGED <<st, hint, queue, wake, seen, declarer, called>>
  /\ DetFrame

\* numactive--
EndNumactiveDec(w) ==
  /\ pc[w] = "end_numactive_dec"
  /\ st' = end_numactive_dec(st)
  /\ Goto(w, "end_zero")
  /\ UNCHANGED <<hint, queue, ret, wake, seen, declarer, called>>
  /\ DetFrame

\* if (numactive == 0) ... else cond.wait(m): the wait releases the mutex
\* and blocks the thread in one step.
EndZero(w) ==
  /\ pc[w] = "end_zero"
  /\ IF end_is_last(st)
       THEN /\ Goto(w, "end_set_done")
            /\ UNCHANGED <<st, wake>>
       ELSE /\ st' = cond_wait(st, w)
            /\ wake' = wake
            /\ Goto(w, "end_wait")
  /\ UNCHANGED <<hint, queue, ret, seen, declarer, called>>
  /\ DetFrame

\* done = true
EndSetDone(w) ==
  /\ pc[w] = "end_set_done"
  /\ st' = end_set_done(st)
  /\ seen' = [seen EXCEPT ![w] = TRUE]
  /\ declarer' = declarer \cup {w}
  /\ Goto(w, "end_broadcast")
  /\ UNCHANGED <<hint, queue, ret, wake, called>>
  /\ DetFrame

\* cond.broadcast()
EndBroadcast(w) ==
  /\ pc[w] = "end_broadcast"
  /\ st' = end_broadcast(st)
  /\ wake' = [u \in Cpus |-> IF u \in st.cond /\ u \notin st'.cond
                              THEN "done" ELSE wake[u]]
  /\ called' = [u \in Cpus |-> called[u] \cap st'.cond]
  /\ Goto(w, "end_unlock")
  /\ UNCHANGED <<hint, queue, ret, seen, declarer>>
  /\ DetFrame

\* cond.wait(m), second half: once released by a broadcast (or woken
\* spuriously) the thread takes the mutex again before wait returns.
EndWake(w) ==
  /\ pc[w] = "end_wait"
  /\ w \notin st.cond
  /\ CanLock(st)
  /\ st' = lock(st, w)
  /\ Goto(w, "end_rearm")
  /\ UNCHANGED <<hint, queue, ret, wake, seen, declarer, called>>
  /\ DetFrame

\* if (!done) numactive++
EndRearm(w) ==
  /\ pc[w] = "end_rearm"
  /\ st' = end_rearm(st)
  /\ seen' = [seen EXCEPT ![w] = st.done]
  /\ Goto(w, "end_unlock")
  /\ UNCHANGED <<hint, queue, ret, wake, declarer, called>>
  /\ DetFrame

\* m.unlock()
EndUnlock(w) ==
  /\ pc[w] = "end_unlock"
  /\ st' = unlock(st)
  /\ Goto(w, "end_dec")
  /\ UNCHANGED <<hint, queue, ret, wake, seen, declarer, called>>
  /\ DetFrame

\* trying_to_sleep.dec()
EndDec(w) ==
  /\ pc[w] = "end_dec"
  /\ st' = end_dec(st)
  /\ Goto(w, "end_clear")
  /\ UNCHANGED <<hint, queue, ret, wake, seen, declarer, called>>
  /\ DetFrame

\* sleeping[cpuid] = false
EndClear(w) ==
  /\ pc[w] = "end_clear"
  /\ st' = end_clear(st, w)
  /\ Goto(w, "end_ret")
  /\ UNCHANGED <<hint, queue, ret, wake, seen, declarer, called>>
  /\ DetFrame

\* return done: done is read here, after the mutex was released.  A thread
\* that got true may stop; one that got false goes back to work.
EndRet(w) ==
  /\ pc[w] = "end_ret"
  /\ ret' = [ret EXCEPT ![w] = RetVal(st.done)]
  /\ IF st.done THEN Goto(w, "terminated") ELSE Goto(w, "idle")
  /\ UNCHANGED <<st, hint, queue, wake, seen, declarer, called>>
  /\ DetFrame

\* new_job(): if (trying_to_sleep.value > 0)
NewJobTest(w) ==
  /\ pc[w] = "new_job_test"
  /\ IF new_job_test(st)
       THEN Goto(w, "new_job_lock") /\ called' = [called EXCEPT ![w] = st.cond]
       ELSE Goto(w, "idle") /\ called' = called
  /\ UNCHANGED <<st, hint, queue, ret, wake, seen, declarer>>
  /\ DetFrame

\* new_job(cpuhint): if (sleeping[cpuhint])
NewJobHintTest(w) ==
  /\ pc[w] = "new_job_hint_test"
  /\ \E h \in hint[w] :
       IF new_job_hint_test(st, h)
         THEN /\ Goto(w, "new_job_lock")
              /\ called' = [called EXCEPT ![w] = st.cond \cap {h}]
         ELSE Goto(w, "idle") /\ called' = called
  /\ hint' = [hint EXCEPT ![w] = {}]
  /\ UNCHANGED <<st, queue, ret, wake, seen, declarer>>
  /\ DetFrame

\* m.lock()
NewJobLock(w) ==
  /\ pc[w] = "new_job_lock"
  /\ CanLock(st)
  /\ st' = lock(st, w)
  /\ Goto(w, "new_job_wake")
  /\ UNCHANGED <<hint, queue, ret, wake, seen, declarer, called>>
  /\ DetFrame

\* if (numactive < numcpus) cond.broadcast()
NewJobWake(w) ==
  /\ pc[w] = "new_job_wake"
  /\ st' = new_job_wake(st)
  /\ wake' = [u \in Cpus |->
                IF u \in st.cond /\ u \notin st'.cond
                  THEN (IF u \in called[w] THEN "new_job" ELSE "new_job_other")
                  ELSE wake[u]]
  /\ called' = [u \in Cpus |-> IF u = w THEN {} ELSE called[u] \cap st'.cond]
  /\ Goto(w, "new_job_unlock")
  /\ UNCHANGED <<hint, queue, ret, seen, declarer>>
  /\ DetFrame

\* m.unlock()
NewJobUnlock(w) ==
  /\ pc[w] = "new_job_unlock"
  /\ st' = unlock(st)
  /\ Goto(w, "idle")
  /\ UNCHANGED <<hint, queue, ret, wake, seen, declarer, called>>
  /\ DetFrame

\* pthread_cond_wait may return without any broadcast.
SpuriousWakeup(w) ==
  /\ w \in st.cond
  /\ st' = [st EXCEPT !.cond = @ \ {w}]
  /\ wake' = [wake EXCEPT ![w] = "spurious"]
  /\ called' = [u \in Cpus |-> called[u] \ {w}]
  /\ UNCHANGED <<pc, hint, queue, ret, seen, declarer>>
  /\ DetFrame

\* The statements of the detector's protocol and of new_job.
Protocol(w) ==
  \/ BeginInc(w) \/ BeginMark(w) \/ BeginLock(w) \/ CheckQueue(w)
  \/ CancelUnlock(w) \/ CancelClear(w) \/ CancelDec(w)
  \/ EndTest(w) \/ FastUnlock(w) \/ FastDec(w) \/ FastClear(w) \/ FastRet(w)
  \/ EndNumactiveDec(w) \/ EndZero(w) \/ EndSetDone(w) \/ EndBroadcast(w)
  \/ EndWake(w) \/ EndRearm(w) \/ EndUnlock(w) \/ EndDec(w) \/ EndClear(w)
  \/ EndRet(w)
  \/ NewJobTest(w) \/ NewJobHintTest(w) \/ NewJobLock(w) \/ NewJobWake(w)
  \/ NewJobUnlock(w)

Thread(w) == Enqueue(w) \/ Dequeue(w) \/ Protocol(w) \/ SpuriousWakeup(w)

\* reset(): the engine re-arms the detector between two runs, when no
\* thread is inside a call of the detector, and starts the threads again.
Reset ==
  /\ \A w \in Cpus : pc[w] \in OutPcs
  /\ st' = reset(st)
  /\ afterReset' = IF st.done THEN "done" ELSE "running"
  /\ pc' = [w \in Cpus |-> "idle"]
  /\ ret' = [w \in Cpus |-> "none"]
  /\ wake' = [w \in Cpus |-> "none"]
  /\ seen' = [w \in Cpus |-> FALSE]
  /\ declarer' = {}
  /\ UNCHANGED <<hint, queue, called>>
  /\ UNCHANGED <<fac, aborted, parity, fop, fret>>

DetInit ==
  /\ st = shared_termination(ncpus)
  /\ pc = [w \in Cpus |-> "idle"]
  /\ hint = [w \in Cpus |-> {}]
  /\ queue = 0
  /\ ret = [w \in Cpus |-> "none"]
  /\ wake = [w \in Cpus |-> "none"]
  /\ seen = [w \in Cpus |-> FALSE]
  /\ declarer = {}
  /\ called = [w \in Cpus |-> {}]
  /\ afterReset = "no"

\* ------------------------------------------------ synchronous_scope_factory
\* Largest vertex id handed to get_scope in the model.
MaxVertex == 1
Vertices == 0 .. MaxVertex

\* The two graphs the engine owns, and the null handle of a scope that was
\* never bound.
SrcGraph0 == "g0"
DestGraph0 == "g1"
NullGraph == "null"
Graphs == {SrcGraph0, DestGraph0}

\* Graph::num_vertices().  The two buffers get different counts so that a
\* change of the handle num_vertices() reads would show.
graph_num_vertices(g) == IF g = SrcGraph0 THEN MaxVertex + 1 ELSE MaxVertex + 2

\* scope_range::scope_range_enum values passed as the third argument.
ScopeRanges == {"USE_DEFAULT", "FULL_CONSISTENCY"}

\* A default-constructed synchronous_scope, bound to nothing.
unbound_scope ==
  [ srcgraph |-> NullGraph, destgraph |-> NullGraph,
    vertexdatagraph |-> NullGraph, vertex |-> 0, bound |-> FALSE ]

\* synchronous_scope::init(srcgraph, destgraph, vertexdatagraph, v)
scope_init(src, dest, vdata, v) ==
  [ srcgraph |-> src, destgraph |-> dest,
    vertexdatagraph |-> vdata, vertex |-> v, bound |-> TRUE ]

\* synchronous_scope_factory(srcgraph, destgraph, ncpus)
synchronous_scope_factory(srcgraph, destgraph, n) ==
  [ srcgraph |-> srcgraph,
    destgraph |-> destgraph,
    vertexdatagraph |-> destgraph,
    scopes |-> [i \in 0 .. (n - 1) |-> unbound_scope] ]

\* scopes.size()
ScopesSize(f) == Cardinality(DOMAIN f.scopes)

\* An assert that takes the last slot for out of range.
get_scope_assert_excludes_last(f, cpuid) == cpuid < ScopesSize(f) - 1
\* assert(cpuid < scopes.size())
get_scope_assert(f, cpuid) == cpuid < ScopesSize(f)

\* A get_scope that also brings the other bound slots up to the current
\* graph handles.
get_scope_rebinds_pool(f, cpuid, v, range) ==
  [f EXCEPT !.scopes =
     [i \in DOMAIN f.scopes |->
        IF i = cpuid
          THEN scope_init(f.srcgraph, f.destgraph, f.vertexdatagraph, v)
          ELSE IF f.scopes[i].bound
                 THEN scope_init(f.srcgraph, f.destgraph, f.vertexdatagraph,
                                 f.scopes[i].vertex)
                 ELSE f.scopes[i]]]
\* A get_scope that leaves a slot that is already bound as it is.
get_scope_first_binding_wins(f, cpuid, v, range) ==
  IF f.scopes[cpuid].bound
    THEN f
    ELSE [f EXCEPT !.scopes[cpuid] =
            scope_init(f.srcgraph, f.destgraph, f.vertexdatagraph, v)]
\* get_scope(cpuid, v, scope_range), past the assert
get_scope(f, cpuid, v, range) ==
  [f EXCEPT !.scopes[cpuid] =
     scope_init(f.srcgraph, f.destgraph, f.vertexdatagraph, v)]

\* get_scope's return value, &scopes[cpuid], as the index of the slot.
get_scope_result(f, cpuid) == <<"scope", cpuid>>

\* A swap that also exchanges the handles of the scopes already bound.
swap_graphs_rebinds_scopes(f) ==
  [f EXCEPT !.srcgraph = f.destgraph, !.destgraph = f.srcgraph,
            !.scopes = [i \in DOMAIN f.scopes |->
                          IF f.scopes[i].bound
                            THEN [f.scopes[i] EXCEPT
                                    !.srcgraph = f.scopes[i].destgraph,
                                    !.destgraph = f.scopes[i].srcgraph]
                            ELSE f.scopes[i]]]
\* A swap that hands the source over and leaves the dest handle as it was.
swap_graphs_half(f) == [f EXCEPT !.destgraph = f.srcgraph]
\* A swap written without the temporary.
swap_graphs_no_tmp(f) ==
  [f EXCEPT !.srcgraph = f.destgraph, !.destgraph = f.destgraph]
\* A swap that takes the vertex data handle along with the dest handle.
swap_graphs_moves_vertexdata(f) ==
  [f EXCEPT !.srcgraph = f.destgraph, !.destgraph = f.srcgraph,
            !.vertexdatagraph = f.srcgraph]
\* swap_graphs()
swap_graphs(f) == [f EXCEPT !.srcgraph = f.destgraph, !.destgraph = f.srcgraph]

get_src_graph(f) == f.srcgraph
get_dest_graph(f) == f.destgraph
get_vertex_data_graph(f) == f.vertexdatagraph
\* num_vertices()
num_vertices(f) == graph_num_vertices(f.vertexdatagraph)
\* release_scope(scope) and set_default_scope(range) have empty bodies
release_scope(f, cpuid) == f
set_default_scope(f, range) == f

\* A factory call leaves the detector and its threads alone.
FacFrame ==
  UNCHANGED <<st, pc, hint, queue, ret, wake, seen, declarer, called,
              afterReset>>

\* get_scope(cpuid, v, scope_range): the assert stops the program when cpuid
\* is not the index of a pooled scope.
GetScope(cpuid, v, range) ==
  /\ ~aborted
  /\ fop' = <<"get_scope", cpuid, v, range>>
  /\ IF get_scope_assert(fac, cpuid)
       THEN /\ fac' = get_scope(fac, cpuid, v, range)
            /\ fret' = get_scope_result(fac, cpuid)
            /\ aborted' = FALSE
       ELSE /\ fac' = fac
            /\ fret' = <<"none">>
            /\ aborted' = TRUE
  /\ UNCHANGED parity
  /\ FacFrame

SwapGraphs ==
  /\ ~aborted
  /\ fac' = swap_graphs(fac)
  /\ parity' = (parity + 1) % 2
  /\ fop' = <<"swap_graphs">>
  /\ fret' = <<"void">>
  /\ UNCHANGED aborted
  /\ FacFrame

ReleaseScope(cpuid) ==
  /\ ~aborted
  /\ fac' = release_scope(fac, cpuid)
  /\ fop' = <<"release_scope", cpuid>>
  /\ fret' = <<"void">>
  /\ UNCHANGED <<aborted, parity>>
  /\ FacFrame

SetDefaultScope(range) ==
  /\ ~aborted
  /\ fac' = set_default_scope(fac, range)
  /\ fop' = <<"set_default_scope", range>>
  /\ fret' = <<"void">>
  /\ UNCHANGED <<aborted, parity>>
  /\ FacFrame

FacInit ==
  /\ fac = synchronous_scope_factory(SrcGraph0, DestGraph0, ncpus)
  /\ aborted = FALSE
  /\ parity = 0
  /\ fop = <<"construct">>
  /\ fret = <<"void">>

Init == DetInit /\ FacInit

Next == \E w \in Cpus : Thread(w)

\* The detector and its threads, no reset().
Spec == Init /\ [][Next]_vars

\* The same with the engine calling reset() between runs.
NextReset == Next \/ Reset
SpecReset == Init /\ [][NextReset]_vars

\* The detector under a fair scheduler: a thread that can execute its next
\* statement does so eventually, and a thread waiting for the mutex gets it
\* if the mutex keeps being released.  What a thread's scheduler does between
\* calls (Enqueue, Dequeue) and spurious wakeups are under no obligation.
Fairness == \A w \in Cpus : SF_vars(Protocol(w))
SpecLive == Init /\ [][Next]_vars /\ Fairness

\* The factory under any sequence of calls, cpuid ranging one past the pool.
FacNext ==
  \/ \E cpuid \in 0 .. ncpus, v \in Vertices, range \in ScopeRanges :
       GetScope(cpuid, v, range)
  \/ SwapGraphs
  \/ \E cpuid \in Cpus : ReleaseScope(cpuid)
  \/ \E range \in ScopeRanges : SetDefaultScope(range)
SpecFactory == Init /\ [][FacNext]_vars

\* ------------------------------------------------------------------ claims
\* Thread w takes a step.
Steps(w) == pc'[w] # pc[w]

\* C1 (termination soundness): at the instant done is set to true, that is
\* just before and just after thread w executes `done = true`, w holds the
\* mutex, numactive is 0, every other thread is inside the cond.wait of
\* end_sleep_critical_section (it decremented numactive and has not
\* incremented it again) and the task queue is empty; so no thread is
\* inserting a task or sits on an observation of a non-empty queue.
C1_TerminationSoundness ==
  \A w \in Cpus :
    pc[w] \in {"end_set_done", "end_broadcast"} =>
      /\ st.m = {w}
      /\ st.numactive = 0
      /\ st.done = (pc[w] = "end_broadcast")
      /\ \A u \in Cpus \ {w} : pc[u] = "end_wait"
      /\ queue = 0

\* done has just been set while every other thread is parked.
C1_Witness ==
  \E w \in Cpus :
    /\ pc[w] = "end_broadcast"
    /\ st.done
    /\ st.cond = Cpus \ {w}

\* C2 (termination liveness): under the fair scheduler, if from some point
\* on the queue is empty and no thread is in a new_job call (so that every
\* queue check leads to end_sleep_critical_section) and no wait ends without
\* a broadcast any more, then eventually the last end_sleep_critical_section
\* call of every thread has returned true.
Quiet ==
  /\ queue = 0
  /\ \A w \in Cpus : pc[w] \notin NewJobPcs /\ wake[w] # "spurious"
AllReturnedTrue == \A w \in Cpus : ret[w] = "true"
Parked(w) == pc[w] = "end_wait" /\ w \in st.cond /\ ~st.done
NewJobCalledFor(w) ==
  \E u \in Cpus \ {w} :
    \/ pc[u] = "new_job_test"
    \/ pc[u] = "new_job_hint_test" /\ hint[u] = {w}
\* The call in which w was released by the broadcast of a new_job call made
\* while w was parked (for new_job(h): with h = w) has returned.
ReturnedAfterNewJob(w) == wake[w] = "new_job" /\ pc[w] \in OutPcs

\* C3 as claimed (no lost wakeup): a thread released from its wait by a
\* new_job broadcast re-increments numactive and its call returns false.
C3_WokenReturnsFalse ==
  \A w \in Cpus : ReturnedAfterNewJob(w) => (ret[w] = "false" /\ ~seen[w])

\* C3 as amended: under the fair scheduler a thread parked in
\* end_sleep_critical_section when another thread calls new_job() or
\* new_job(w) is released and its call returns; a thread a new_job broadcast
\* released re-increments numactive exactly if done is false when it has the
\* mutex again, and then returns false; if termination was declared in
\* between it leaves numactive alone and returns true.
C3_NoLostWakeup ==
  /\ \A w \in Cpus : (Parked(w) /\ NewJobCalledFor(w)) ~> (pc[w] \in OutPcs)
  /\ [][\A w \in Cpus :
          (pc[w] = "end_rearm" /\ Steps(w) /\ wake[w] = "new_job") =>
            st'.numactive = IF st.done THEN st.numactive ELSE st.numactive + 1]_vars
  /\ [](\A w \in Cpus :
          ReturnedAfterNewJob(w) =>
            /\ ret[w] = (IF seen[w] THEN "true" ELSE "false")
            /\ ret[w] = "true" => st.done)

\* A thread released by a new_job broadcast has returned false.
C3_Witness ==
  \E w \in Cpus :
    /\ ReturnedAfterNewJob(w)
    /\ ret[w] = "false"
    /\ pc[w] = "idle"
    /\ ~st.done

\* C4 (done is monotonic and declared once): without reset(), a step never
\* takes done from true to false, `done = true` is only ever executed while
\* done is false, and at most one thread executes it; done is true exactly
\* when some thread has executed it.
C4_DoneOnce ==
  /\ [][st.done => st'.done]_vars
  /\ [][\A w \in Cpus :
          (pc[w] = "end_set_done" /\ Steps(w)) => (~st.done /\ declarer = {})]_vars
  /\ [](Cardinality(declarer) <= 1)
  /\ [](st.done <=> declarer # {})

\* Termination was declared by one thread and every thread has returned.
C4_Witness ==
  /\ st.done
  /\ Cardinality(declarer) = 1
  /\ \A w \in Cpus : pc[w] = "terminated"

\* C5 (fast exit): a call of end_sleep_critical_section(w) that finds done
\* true under the mutex goes through unlock, trying_to_sleep.dec(),
\* sleeping[w] = false and `return true`: it never waits on the condition
\* variable and no step of it changes numactive or done.
FastStep(w) ==
  /\ Steps(w)
  /\ \/ pc[w] = "end_test" /\ st.done
     \/ pc[w] \in FastPcs
C5_FastExit ==
  [][\A w \in Cpus :
       FastStep(w) =>
         /\ st'.numactive = st.numactive
         /\ st'.done = st.done
         /\ st'.cond = st.cond
         /\ pc'[w] \in FastPcs \cup {"terminated"}
         /\ pc[w] = "fast_unlock" =>
              st' = [st EXCEPT !.m = {}] /\ st.m = {w}
         /\ pc[w] = "fast_dec" =>
              st' = [st EXCEPT !.trying_to_sleep = st.trying_to_sleep - 1]
         /\ pc[w] = "fast_clear" =>
              st' = [st EXCEPT !.sleeping[w] = FALSE]
         /\ pc[w] = "fast_ret" =>
              ret'[w] = "true" /\ pc'[w] = "terminated" /\ st' = st]_vars

\* A thread that had already stopped called again and is about to return
\* true from the fast exit.
C5_Witness ==
  \E w \in Cpus :
    /\ pc[w] = "fast_ret"
    /\ ret[w] = "true"
    /\ ~st.sleeping[w]
    /\ st.numactive = 0

\* C6 (new_job wake condition): new_job() returns without touching the mutex
\* or the condition variable when trying_to_sleep is 0, and new_job(h) does
\* so when sleeping[h] is false; otherwise the call locks the mutex and
\* releases every waiter if numactive < numcpus at that moment and no waiter
\* otherwise, then unlocks.  No step of either variant changes numactive,
\* done, sleeping[] or trying_to_sleep.
NewJobStep(w) == Steps(w) /\ pc[w] \in NewJobPcs
C6_NewJobWake ==
  [][\A w \in Cpus :
       NewJobStep(w) =>
         /\ st'.numactive = st.numactive
         /\ st'.numcpus = st.numcpus
         /\ st'.done = st.done
         /\ st'.sleeping = st.sleeping
         /\ st'.trying_to_sleep = st.trying_to_sleep
         /\ pc[w] = "new_job_test" =>
              /\ st' = st
              /\ pc'[w] = IF st.trying_to_sleep = 0 THEN "idle" ELSE "new_job_lock"
         /\ pc[w] = "new_job_hint_test" =>
              /\ st' = st
              /\ \A h \in hint[w] :
                   pc'[w] = IF st.sleeping[h] THEN "new_job_lock" ELSE "idle"
         /\ pc[w] = "new_job_lock" =>
              st.m = {} /\ st' = [st EXCEPT !.m = {w}]
         /\ pc[w] = "new_job_wake" =>
              /\ st.m = {w}
              /\ st' = [st EXCEPT !.cond =
                          IF st.numactive < st.numcpus THEN {} ELSE @]
         /\ pc[w] = "new_job_unlock" =>
              st' = [st EXCEPT !.m = {}] /\ pc'[w] = "idle"]_vars

\* A new_job call has just released a parked thread.
C6_Witness ==
  \E w \in Cpus, u \in Cpus :
    /\ pc[w] = "new_job_unlock"
    /\ pc[u] = "end_wait"
    /\ wake[u] = "new_job"
    /\ u \notin st.cond

\* C7 (cancel): cancel_sleep_critical_section(w) is entered by the holder of
\* the mutex; its three statements release the mutex, clear sleeping[w] and
\* take one from trying_to_sleep, and change nothing else: numactive, done,
\* the waiters and every other thread's sleeping flag stay as they are.  A
\* begin/cancel pair run from a state with the mutex free gives back the
\* state it started from.
CancelStep(w) == Steps(w) /\ pc[w] \in CancelPcs
C7_CancelFrame ==
  /\ [][\A w \in Cpus :
          CancelStep(w) =>
            /\ pc[w] = "cancel_unlock" =>
                 st.m = {w} /\ st' = [st EXCEPT !.m = {}]
            /\ pc[w] = "cancel_clear" =>
                 st.sleeping[w] /\ st' = [st EXCEPT !.sleeping[w] = FALSE]
            /\ pc[w] = "cancel_dec" =>
                 /\ st.trying_to_sleep >= 1
                 /\ st' = [st EXCEPT !.trying_to_sleep = st.trying_to_sleep - 1]
                 /\ pc'[w] = "idle"]_vars
  /\ [](\A w \in Cpus :
          (pc[w] \in OutPcs /\ CanLock(st)) =>
            cancel_sleep_critical_section(
              begin_sleep_critical_section(st, w), w) = st)

\* Thread w found a task under the mutex and is finishing its cancel call.
C7_Witness ==
  \E w \in Cpus :
    /\ pc[w] = "cancel_dec"
    /\ queue > 0
    /\ ~st.sleeping[w]
    /\ w \notin st.m

\* C8 (reset): the state a reset() call leaves has numactive = numcpus = N,
\* done false, trying_to_sleep 0 and every sleeping flag false, also when the
\* run before ended with done true and numactive 0; it is the state of a
\* newly constructed detector, so the run that follows starts as a first run
\* does.  reset() applied to any reachable state, threads in the middle of
\* a call included, gives the constructed detector but for the mutex and
\* the waiters, which it does not touch; resetting twice gives what
\* resetting once gives.
C8_Reset ==
  /\ afterReset # "no" =>
       /\ st.numactive = ncpus
       /\ st.numcpus = ncpus
       /\ ~st.done
       /\ st.trying_to_sleep = 0
       /\ \A i \in Cpus : ~st.sleeping[i]
       /\ st = shared_termination(ncpus)
  /\ reset(st) = [shared_termination(ncpus) EXCEPT !.m = st.m, !.cond = st.cond]
  /\ reset(reset(st)) = reset(st)

\* reset() was called after a run that ended with done true.
C8_Witness ==
  /\ afterReset = "done"
  /\ st.numactive = ncpus
  /\ ~st.done

\* C9 (swap correctness): whatever get_scope, release_scope and
\* set_default_scope calls come in between, after an odd number of
\* swap_graphs() calls get_src_graph() is the initial dest graph and
\* get_dest_graph() the initial source graph, after an even number both are
\* the initial ones; two swaps in a row change nothing.
C9_SwapCorrectness ==
  /\ parity = 1 =>
       get_src_graph(fac) = DestGraph0 /\ get_dest_graph(fac) = SrcGraph0
  /\ parity = 0 =>
       get_src_graph(fac) = SrcGraph0 /\ get_dest_graph(fac) = DestGraph0
  /\ swap_graphs(swap_graphs(fac)) = fac

\* An odd number of swaps has happened, the last call being a get_scope
\* that bound a scope to the exchanged graphs.
C9_Witness ==
  /\ parity = 1
  /\ fop[1] = "get_scope"
  /\ \E i \in Cpus :
       /\ fac.scopes[i].bound
       /\ fac.scopes[i].srcgraph = DestGraph0
       /\ fac.scopes[i].destgraph = SrcGraph0

\* C10 (vertex-data graph is fixed): no step of swap_graphs, get_scope,
\* release_scope or set_default_scope changes the vertex-data handle, so
\* get_vertex_data_graph() is the initial dest graph and num_vertices() is
\* that graph's vertex count in every state, before and after any swaps.
C10_VertexDataFixed ==
  /\ [][get_vertex_data_graph(fac') = get_vertex_data_graph(fac)]_vars
  /\ [](get_vertex_data_graph(fac) = DestGraph0)
  /\ [](num_vertices(fac) = graph_num_vertices(DestGraph0))

\* After one swap the vertex-data graph is the factory's source graph.
C10_Witness ==
  /\ parity = 1
  /\ fop = <<"swap_graphs">>
  /\ get_vertex_data_graph(fac) = get_src_graph(fac)
  /\ get_vertex_data_graph(fac) = DestGraph0

\* The step is a get_scope call that returned.
GetScopeReturned == fop'[1] = "get_scope" /\ ~aborted'

\* C11 (scope binding determinism): every get_scope(w, v, range) call with
\* w < N returns the pointer to pool slot w, whatever calls came before; when
\* it returns, slot w is bound to v and to the handles get_src_graph(),
\* get_dest_graph() and get_vertex_data_graph() give at that moment, whatever
\* the slot was bound to before; and in every state the call gives the same
\* factory for every value of the scope-range argument.
C11_ScopeBinding ==
  /\ [][GetScopeReturned =>
          LET w == fop'[2]
              v == fop'[3]
          IN /\ w \in Cpus
             /\ fret' = <<"scope", w>>
             /\ fac'.scopes[w] =
                  [ srcgraph |-> get_src_graph(fac'),
                    destgraph |-> get_dest_graph(fac'),
                    vertexdatagraph |-> get_vertex_data_graph(fac'),
                    vertex |-> v, bound |-> TRUE ]]_vars
  /\ [](\A w \in Cpus, v \in Vertices, r1 \in ScopeRanges, r2 \in ScopeRanges :
          get_scope(fac, w, v, r1) = get_scope(fac, w, v, r2))

\* After a swap, get_scope has bound the last slot anew, to the largest
\* vertex and the exchanged graphs, while slot 0 still has the binding it
\* got before the swap.
C11_Witness ==
  /\ parity = 1
  /\ fop[1] = "get_scope" /\ fop[2] = ncpus - 1 /\ fop[3] = MaxVertex
  /\ fret = <<"scope", ncpus - 1>>
  /\ fac.scopes[ncpus - 1].vertex = MaxVertex
  /\ fac.scopes[ncpus - 1].srcgraph = DestGraph0
  /\ fac.scopes[0].bound /\ fac.scopes[0].srcgraph = SrcGraph0

\* C12 (get_scope frame): a get_scope(w, v) call that returns leaves every
\* slot other than w, and the source, dest and vertex-data handles, as they
\* were; the pool has exactly N slots in every state; and from every
\* reachable state two get_scope calls for different worker ids give the
\* same factory in either order.
C12_GetScopeFrame ==
  /\ [][GetScopeReturned =>
          LET w == fop'[2]
          IN /\ \A i \in Cpus \ {w} : fac'.scopes[i] = fac.scopes[i]
             /\ get_src_graph(fac') = get_src_graph(fac)
             /\ get_dest_graph(fac') = get_dest_graph(fac)
             /\ get_vertex_data_graph(fac') = get_vertex_data_graph(fac)
             /\ ScopesSize(fac') = ScopesSize(fac)]_vars
  /\ [](ScopesSize(fac) = ncpus /\ DOMAIN fac.scopes = Cpus)
  /\ [](\A w1 \in Cpus, w2 \in Cpus, v1 \in Vertices, v2 \in Vertices,
           r1 \in ScopeRanges, r2 \in ScopeRanges :
          w1 # w2 =>
            get_scope(get_scope(fac, w1, v1, r1), w2, v2, r2)
              = get_scope(get_scope(fac, w2, v2, r2), w1, v1, r1))

\* get_scope has just bound slot 0 after a swap, and the last slot still
\* has the binding, to another vertex and the graphs as they were before
\* the swap, that an earlier call gave it.
C12_Witness ==
  /\ parity = 1
  /\ fop[1] = "get_scope" /\ fop[2] = 0
  /\ fac.scopes[0].srcgraph = DestGraph0
  /\ fac.scopes[ncpus - 1].bound
  /\ fac.scopes[ncpus - 1].srcgraph = SrcGraph0
  /\ fac.scopes[ncpus - 1].vertex # fac.scopes[0].vertex

\* C13 (source/dest role invariant): in every state reached from the
\* factory constructed with source g0 and dest g1 by get_scope, swap_graphs,
\* release_scope and set_default_scope calls, the pair (get_src_graph(),
\* get_dest_graph()) is (g0, g1) or (g1, g0): the two handles are different
\* and each is one of the two graphs given at construction, never null and
\* never another graph.
C13_RoleInvariant ==
  /\ <<get_src_graph(fac), get_dest_graph(fac)>>
       \in {<<SrcGraph0, DestGraph0>>, <<DestGraph0, SrcGraph0>>}
  /\ get_src_graph(fac) # get_dest_graph(fac)
  /\ {get_src_graph(fac), get_dest_graph(fac)} = Graphs

\* A second swap has brought the pair back to (g0, g1) while a slot still
\* holds the pair (g1, g0) from between the two swaps.
C13_Witness ==
  /\ parity = 0
  /\ fop = <<"swap_graphs">>
  /\ get_src_graph(fac) = SrcGraph0 /\ get_dest_graph(fac) = DestGraph0
  /\ \E i \in Cpus : fac.scopes[i].bound /\ fac.scopes[i].srcgraph = DestGraph0

\* C14 (out-of-range worker id): a get_scope call with cpuid >= N fails its
\* assertion: the program stops there, the call returns nothing, and no slot
\* and no graph handle has been changed; a get_scope call with cpuid < N
\* never fails and returns a slot.  Nothing else makes the factory fail.
C14_OutOfRange ==
  /\ [][fop'[1] = "get_scope" =>
          IF fop'[2] >= ncpus
            THEN aborted' /\ fac' = fac /\ fret' = <<"none">>
            ELSE ~aborted' /\ fret'[1] = "scope"]_vars
  /\ [](aborted => fop[1] = "get_scope" /\ fop[2] >= ncpus)
  /\ [][aborted => fac' = fac]_vars

\* get_scope(N, ...) has failed after a swap, with slot 0 bound.
C14_Witness ==
  /\ aborted
  /\ fop[1] = "get_scope" /\ fop[2] = ncpus
  /\ parity = 1
  /\ fac.scopes[0].bound

\* Thread w has executed numactive-- in end_sleep_critical_section and has
\* not counted itself active again: it is between the decrement and the
\* statement after cond.wait, or done is set (done is only set when every
\* thread is there, and nobody increments from then on).
Committed(w) ==
  \/ st.done
  \/ pc[w] \in {"end_zero", "end_set_done", "end_broadcast", "end_wait",
                 "end_rearm"}

\* C15 as claimed: numactive always equals N minus the number of threads i
\* with sleeping[i] true, those between begin_sleep_critical_section and the
\* matching cancel or end.
C15_NumactiveIsNonSleeping ==
  st.numactive = ncpus - Cardinality({i \in Cpus : st.sleeping[i]})

\* C15 as amended: numactive always equals N minus the number of threads
\* that have executed end's decrement and not counted themselves active
\* again.  A thread between begin and that decrement, or in cancel, has
\* sleeping[i] true and is still counted; until done is set the threads not
\* counted all have sleeping[i] true; once done is set numactive is 0
\* whatever the sleeping flags are.
C15_NumactiveCount ==
  /\ st.numactive = ncpus - Cardinality({w \in Cpus : Committed(w)})
  /\ ~st.done => \A w \in Cpus : Committed(w) => st.sleeping[w]
  /\ st.numactive >= ncpus - Cardinality({i \in Cpus : st.sleeping[i]})
       \/ st.done

\* Thread 0 is parked and thread 1 has called begin and holds the mutex:
\* two sleeping flags are set and numactive is N - 1.
C15_Witness ==
  /\ pc[0] = "end_wait" /\ 0 \in st.cond
  /\ pc[1] = "end_test"
  /\ st.sleeping[0] /\ st.sleeping[1]
  /\ st.numactive = ncpus - 1

\* C16 (numactive range): without reset(), num_active() is between 0 and N
\* in every reachable state; numactive only changes by one at a time, it is
\* only decremented when it is at least 1 (the size_t never wraps around)
\* and only incremented when it is below N.
C16_NumactiveRange ==
  /\ [](num_active(st) \in 0 .. ncpus)
  /\ [][st'.numactive < st.numactive =>
          st.numactive >= 1 /\ st'.numactive = st.numactive - 1]_vars
  /\ [][st'.numactive > st.numactive =>
          st.numactive < ncpus /\ st'.numactive = st.numactive + 1]_vars

\* After termination, with numactive 0, a thread that had returned true is
\* in a further end_sleep_critical_section call, past the test of done.
C16_Witness ==
  /\ st.numactive = 0
  /\ \E w \in Cpus : pc[w] = "fast_unlock" /\ ret[w] = "true"

\* C17 (done and numactive): in every state in which no thread holds the
\* mutex, done is true exactly if numactive is 0.  So while done is false
\* the threads are never all blocked in cond.wait, and once done is true no
\* step (a wakeup, a fast-exit end call, a new_job call) leaves numactive
\* other than 0.
C17_DoneIffZero ==
  /\ [](st.m = {} => (st.done <=> st.numactive = 0))
  /\ [](~st.done => st.cond # Cpus)
  /\ [](~st.done /\ st.m = {} => st.numactive >= 1)
  /\ [][st.done => st'.numactive = 0]_vars

\* After termination the mutex is free, a thread woken by the declaring
\* broadcast is past its unlock and numactive is 0.
C17_Witness ==
  /\ st.m = {}
  /\ st.done /\ st.numactive = 0
  /\ \E w \in Cpus : wake[w] = "done" /\ pc[w] = "end_dec"

\* C18 (return value): the value end_sleep_critical_section returns, read
\* from done after m.unlock(), is the value of done the call last read or
\* wrote while it held the mutex: from the unlock to the return, done does
\* not change under the thread.  So a call that counted itself active again
\* after waking (it saw done false) returns false, and a call that saw done
\* true, the fast exit included, returns true.
C18_ReturnIsSeen ==
  /\ [](\A w \in Cpus :
          pc[w] \in {"end_unlock", "end_dec", "end_clear", "end_ret"} =>
            st.done = seen[w])
  /\ [][\A w \in Cpus :
          pc[w] = "end_ret" /\ pc'[w] # "end_ret" =>
            ret'[w] = RetVal(seen[w])]_vars
  /\ [][\A w \in Cpus :
          pc[w] = "fast_ret" /\ pc'[w] # "fast_ret" =>
            seen[w] /\ ret'[w] = "true"]_vars

\* A woken thread that saw done false has returned false while another
\* thread, having decremented numactive, is inside its own end call.
C18_Witness ==
  \E w \in Cpus, u \in Cpus :
    /\ w # u
    /\ pc[w] = "idle" /\ ret[w] = "false" /\ ~seen[w]
    /\ pc[u] \in {"end_zero", "end_wait"}

\* Thread w has executed trying_to_sleep.inc() in begin and not yet the
\* trying_to_sleep.dec() of the cancel or end call that follows.
Trying(w) ==
  pc[w] \in {"begin_mark", "begin_lock", "check_queue",
             "cancel_unlock", "cancel_clear", "cancel_dec",
             "end_test", "end_numactive_dec", "end_zero", "end_set_done",
             "end_broadcast", "end_wait", "end_rearm", "end_unlock",
             "end_dec", "fast_unlock", "fast_dec"}

\* C19 (hints of a parked worker): while a thread w is blocked in the
\* cond.wait of end_sleep_critical_section(w), trying_to_sleep is at least 1
\* and sleeping[w] is true, so the test of new_job() and the test of
\* new_job(w) both send the caller on to the mutex; trying_to_sleep always
\* equals the number of threads between begin's increment and the matching
\* decrement, and it is only decremented when it is at least 1.
C19_ParkedHints ==
  /\ [](\A w \in Cpus :
          pc[w] = "end_wait" =>
            /\ st.trying_to_sleep >= 1
            /\ st.sleeping[w]
            /\ new_job_test(st)
            /\ new_job_hint_test(st, w))
  /\ [](st.trying_to_sleep = Cardinality({w \in Cpus : Trying(w)}))
  /\ [][st'.trying_to_sleep < st.trying_to_sleep =>
          st.trying_to_sleep >= 1
            /\ st'.trying_to_sleep = st.trying_to_sleep - 1]_vars
  /\ [][\A u \in Cpus :
          /\ pc[u] = "new_job_test" /\ pc'[u] # pc[u] /\ st.cond # {}
               => pc'[u] = "new_job_lock"
          /\ pc[u] = "new_job_hint_test" /\ pc'[u] # pc[u]
                 /\ hint[u] \subseteq st.cond
               => pc'[u] = "new_job_lock"]_vars

\* Thread 0 is blocked in cond.wait while the other thread, outside the
\* protocol, is at the test of new_job(0): only thread 0 keeps the hint
\* counter up.
C19_Witness ==
  /\ pc[0] = "end_wait" /\ 0 \in st.cond
  /\ pc[1] = "new_job_hint_test" /\ hint[1] = {0}
  /\ st.trying_to_sleep = 1
  /\ st.sleeping[0]

\* The step is a swap_graphs call.
SwapStep == parity' # parity

\* C20 (swap leaves the pool alone): a swap_graphs() call changes no pooled
\* scope, so a slot that was bound to the factory's source and dest before
\* the swap has the factory's new dest as its source and the new source as
\* its dest afterwards; a slot only ever changes in a get_scope call for its
\* own worker id, which binds it to the roles of that moment; and no step
\* changes the vertex-data handle of a bound scope.
C20_SwapKeepsScopes ==
  /\ [][SwapStep =>
          /\ fac'.scopes = fac.scopes
          /\ \A i \in Cpus :
               fac.scopes[i].bound
                 /\ fac.scopes[i].srcgraph = get_src_graph(fac)
                 /\ fac.scopes[i].destgraph = get_dest_graph(fac)
               => /\ fac'.scopes[i].srcgraph = get_dest_graph(fac')
                  /\ fac'.scopes[i].destgraph = get_src_graph(fac')]_vars
  /\ [][\A i \in Cpus :
          fac'.scopes[i] # fac.scopes[i] =>
            /\ fop'[1] = "get_scope" /\ fop'[2] = i
            /\ fac'.scopes[i].srcgraph = get_src_graph(fac')
            /\ fac'.scopes[i].destgraph = get_dest_graph(fac')]_vars
  /\ [][\A i \in Cpus :
          fac.scopes[i].bound =>
            fac'.scopes[i].vertexdatagraph = fac.scopes[i].vertexdatagraph]_vars

\* Right after the first swap a slot still holds the handles it was bound
\* with: its source is the factory's dest and its dest the factory's source.
C20_Witness ==
  /\ fop = <<"swap_graphs">>
  /\ parity = 1
  /\ \E i \in Cpus :
       /\ fac.scopes[i].bound
       /\ fac.scopes[i].srcgraph = get_dest_graph(fac)
       /\ fac.scopes[i].destgraph = get_src_graph(fac)
       /\ fac.scopes[i].vertexdatagraph = get_vertex_data_graph(fac)

====
